---- MODULE Spec2Model ----
(***************************************************************************)
(* A model of the single-line pattern matcher of src/src/regex_matcher.rs: *)
(* parse_pattern compiles a pattern string into a sequence of Pattern      *)
(* nodes, match_pattern evaluates it against an input line.  The compiler  *)
(* is a pure function and is modelled by operators; the matcher is         *)
(* modelled as a machine with an explicit call stack, one frame per active *)
(* call of match_pattern, match_from_current_position or match_subpattern. *)
(* Characters are one-character strings, strings are sequences of them.    *)
(***************************************************************************)
EXTENDS Integers, Sequences, FiniteSets, TLC

\* ------------------------------------------------------------------ bounds
MaxPatLen == 3
MaxInputLen == 2
MaxCaptures == 4

\* ------------------------------------------------------------- characters
DigitChars == <<"0", "1", "2", "3", "4", "5", "6", "7", "8", "9">>

Letters == {"a", "b", "c", "d", "w", "x", "y", "z"}

\* char::is_digit(10)
IsDigit(c) == \E k \in 1..Len(DigitChars) : DigitChars[k] = c

\* char::to_digit(10).unwrap()
ToDigit(c) == (CHOOSE k \in 1..Len(DigitChars) : DigitChars[k] = c) - 1

\* char::is_alphanumeric, on the characters of the model
IsAlphanumeric(c) == IsDigit(c) \/ c \in Letters

\* ------------------------------------------------------------ Pattern nodes
\* One record shape for every variant of enum Pattern: t the variant, s the
\* String of a Literal or the members of a CharGroup, neg the bool of a
\* CharGroup, k the boxed pattern (one element) or the Vec<Pattern>, n the
\* usize of a BackReference.
Node(t, s, neg, k, n) == [t |-> t, s |-> s, neg |-> neg, k |-> k, n |-> n]

Literal(s) == Node("Literal", s, FALSE, <<>>, 0)

Digit == Node("Digit", <<>>, FALSE, <<>>, 0)

Alphanumeric == Node("Alphanumeric", <<>>, FALSE, <<>>, 0)

AnyChar == Node("AnyChar", <<>>, FALSE, <<>>, 0)

Start == Node("Start", <<>>, FALSE, <<>>, 0)

End == Node("End", <<>>, FALSE, <<>>, 0)

CharGroup(chars, neg) == Node("CharGroup", chars, neg, <<>>, 0)

OneOrMore(p) == Node("OneOrMore", <<>>, FALSE, <<p>>, 0)

ZeroOrOne(p) == Node("ZeroOrOne", <<>>, FALSE, <<p>>, 0)

Alternation(alts) == Node("Alternation", <<>>, FALSE, alts, 0)

Group(subs) == Node("Group", <<>>, FALSE, subs, 0)

BackReference(n) == Node("BackReference", <<>>, FALSE, <<>>, n)

\* ---------------------------------------------------------------- compiler
\* "if !literal_buffer.is_empty() { patterns.push(Literal(buffer)); clear }"
Flush(patterns, buf) == IF buf # <<>> THEN Append(patterns, Literal(buf)) ELSE patterns

\* The scan of a character group: the index of the first "]" at or after j,
\* or Len(s) + 1 when the group is unterminated.
RECURSIVE CloseBracket(_, _)
CloseBracket(s, j) ==
    IF j > Len(s) \/ s[j] = "]" THEN j ELSE CloseBracket(s, j + 1)

\* The scan of a group: the index of the ")" that brings depth to 0, from
\* index j with the given depth, or Len(s) + 1 when the group is unterminated.
RECURSIVE CloseParen(_, _, _)
CloseParen(s, j, depth) ==
    IF j > Len(s) THEN j
    ELSE IF s[j] = "(" THEN CloseParen(s, j + 1, depth + 1)
    ELSE IF s[j] = ")" THEN (IF depth - 1 = 0 THEN j ELSE CloseParen(s, j + 1, depth - 1))
    ELSE CloseParen(s, j + 1, depth)

\* The node of an escaped character that is not a digit.
Escaped(c) ==
    IF c = "d" THEN Digit
    ELSE IF c = "w" THEN Alphanumeric
    ELSE Literal(<<c>>)

\* The arm of "+" and "?": the quantifier binds the last character of a
\* pending literal, else the last node pushed, else it is a literal itself.
Quantify(patterns, buf, quant, sym) ==
    IF buf # <<>> THEN
        IF Len(buf) > 1
        THEN Append(Append(patterns, Literal(SubSeq(buf, 1, Len(buf) - 1))),
                    Node(quant, <<>>, FALSE, <<Literal(<<buf[Len(buf)]>>)>>, 0))
        ELSE Append(patterns, Node(quant, <<>>, FALSE, <<Literal(buf)>>, 0))
    ELSE IF patterns # <<>> THEN
        Append(SubSeq(patterns, 1, Len(patterns) - 1),
               Node(quant, <<>>, FALSE, <<patterns[Len(patterns)]>>, 0))
    ELSE Append(patterns, Literal(<<sym>>))

RECURSIVE ParseLoop(_, _, _, _)
RECURSIVE GroupLoop(_, _, _, _, _)

\* Mutant of parse_group_pattern: the alternatives are returned as they
\* are, with no Alternation around them.
parse_group_pattern_Unwrapped(group_pattern) ==
    GroupLoop(group_pattern, 1, 0, <<>>, <<>>)

\* fn parse_group_pattern
parse_group_pattern(group_pattern) ==
    <<Alternation(GroupLoop(group_pattern, 1, 0, <<>>, <<>>))>>

\* fn parse_pattern
parse_pattern(pattern) == ParseLoop(pattern, 1, <<>>, <<>>)

\* The while loop of parse_group_pattern and the flush after it; the result
\* is the vector of alternatives.
GroupLoop(s, i, depth, current, alternatives) ==
    IF i > Len(s) THEN
        IF current # <<>>
        THEN Append(alternatives, Group(parse_pattern(current)))
        ELSE alternatives
    ELSE IF s[i] = "(" THEN GroupLoop(s, i + 1, depth + 1, Append(current, s[i]), alternatives)
    ELSE IF s[i] = ")" THEN GroupLoop(s, i + 1, depth - 1, Append(current, s[i]), alternatives)
    ELSE IF s[i] = "|" /\ depth = 0 THEN
        GroupLoop(s, i + 1, depth, <<>>, Append(alternatives, Group(parse_pattern(current))))
    ELSE GroupLoop(s, i + 1, depth, Append(current, s[i]), alternatives)

\* The while loop of parse_pattern over the characters from index i on, and
\* the flush after it.
ParseLoop(s, i, patterns, buf) ==
    IF i > Len(s) THEN Flush(patterns, buf)
    ELSE LET c == s[i] IN
    IF c = "\\" THEN
        IF i + 1 <= Len(s) /\ IsDigit(s[i + 1])
        THEN ParseLoop(s, i + 2, Append(Flush(patterns, buf), BackReference(ToDigit(s[i + 1]))), <<>>)
        ELSE IF i + 1 <= Len(s)
        THEN ParseLoop(s, i + 2, Append(Flush(patterns, buf), Escaped(s[i + 1])), <<>>)
        ELSE ParseLoop(s, i + 1, Flush(patterns, buf), <<>>)
    ELSE IF c = "." THEN ParseLoop(s, i + 1, Append(Flush(patterns, buf), AnyChar), <<>>)
    ELSE IF c = "^" THEN ParseLoop(s, i + 1, Append(Flush(patterns, buf), Start), <<>>)
    ELSE IF c = "$" THEN ParseLoop(s, i + 1, Append(Flush(patterns, buf), End), <<>>)
    ELSE IF c = "[" THEN
        LET is_negative == i + 1 <= Len(s) /\ s[i + 1] = "^"
            from == IF is_negative THEN i + 2 ELSE i + 1
            close == CloseBracket(s, from)
        IN ParseLoop(s, close + 1,
                     Append(Flush(patterns, buf), CharGroup(SubSeq(s, from, close - 1), is_negative)),
                     <<>>)
    ELSE IF c = "(" THEN
        LET close == CloseParen(s, i + 1, 1)
        IN ParseLoop(s, close + 1,
                     Append(Flush(patterns, buf),
                            Group(parse_group_pattern(SubSeq(s, i + 1, close - 1)))),
                     <<>>)
    ELSE IF c = "|" THEN ParseLoop(s, i + 1, Append(Flush(patterns, buf), Literal(<<"|">>)), <<>>)
    ELSE IF c = "+" THEN ParseLoop(s, i + 1, Quantify(patterns, buf, "OneOrMore", "+"), <<>>)
    ELSE IF c = "?" THEN ParseLoop(s, i + 1, Quantify(patterns, buf, "ZeroOrOne", "?"), <<>>)
    ELSE ParseLoop(s, i + 1, patterns, Append(buf, c))

\* ------------------------------------------------------- matcher helpers
\* A cursor (Peekable<Chars>) over the line `input` is the number of
\* characters already consumed.
Min(a, b) == IF a < b THEN a ELSE b

\* fn match_literal: the outcome and the cursor it leaves; on a mismatch the
\* mismatching character has been consumed.
match_literal(literal, input, pos) ==
    LET bad == {j \in 1..Len(literal) : pos + j > Len(input) \/ input[pos + j] # literal[j]}
    IN IF bad = {}
       THEN [ok |-> TRUE, pos |-> pos + Len(literal)]
       ELSE [ok |-> FALSE,
             pos |-> Min(pos + (CHOOSE j \in bad : \A m \in bad : j <= m), Len(input))]

\* fn match_class: the outcome and the cursor it leaves.
match_class(pattern, input, pos) ==
    LET some == pos < Len(input)
        c == input[pos + 1]
        next == Min(pos + 1, Len(input))
    IN IF pattern.t = "Digit" THEN [ok |-> some /\ IsDigit(c), pos |-> next]
       ELSE IF pattern.t = "Alphanumeric" THEN [ok |-> some /\ IsAlphanumeric(c), pos |-> next]
       ELSE IF pattern.t = "AnyChar" THEN [ok |-> some, pos |-> next]
       ELSE IF pattern.t = "CharGroup"
       THEN [ok |-> some /\ ((\E m \in 1..Len(pattern.s) : pattern.s[m] = c) # pattern.neg),
             pos |-> next]
       ELSE IF pattern.t \in {"Start", "End"} THEN [ok |-> TRUE, pos |-> pos]
       ELSE [ok |-> FALSE, pos |-> pos]

\* fn extract_captured, on the cursors before and after.
extract_captured(input, before, after) ==
    IF Len(input) - before >= Len(input) - after
    THEN SubSeq(input, before + 1, after)
    ELSE <<>>

\* HashMap::len and HashMap::insert on a capture table (a function from
\* group numbers to captured strings).
TableLen(cg) == Cardinality(DOMAIN cg)

EmptyTable == [n \in {} |-> <<>>]

TableInsert(cg, n, text) == [m \in DOMAIN cg \cup {n} |-> IF m = n THEN text ELSE cg[m]]

\* ------------------------------------------------------------------ state
VARIABLES
    pattern_str,    \* match_pattern's pattern_str
    input_line,     \* match_pattern's input_line
    patterns,       \* match_pattern's patterns, once compiled
    pc,             \* "start", "run", "done", or "exhausted" past MaxCaptures
    stack,          \* the active calls, match_pattern's frame first
    tables,         \* the live capture tables: captured_groups of match_pattern
                    \* first, then each live clone_captured, innermost last
    ret,            \* the value the call that has just returned gave, or NoRet
    result,         \* what match_pattern returned
    attempts,       \* history: the top-level calls of match_from_current_position
    seq             \* SpecSweep only: the outcome of the compiled sequence from
                    \* each offset 0..Len(input_line), the offset o at index o + 1

vars == <<pattern_str, input_line, patterns, pc, stack, tables, ret, result, attempts, seq>>

NoRet == [set |-> FALSE, ok |-> FALSE]

Returned(ok) == [set |-> TRUE, ok |-> ok]

\* A frame: fn the function; pats its pattern slice (match_subpattern: the
\* one pattern); i the index of the node under evaluation; is_start; entry
\* the caller's cursor when the call was made; ic the local input_clone
\* (match_pattern: input_chars); cl the local clone; ph where the frame
\* stands; j the alternative under trial; gn match_subpattern's group_num;
\* cg which of `tables` its captured_groups refers to; s_ic and s_cg the
\* cursor and table as they were when the frame made its pending call
\* (history, read by no action).
Frame(fn, pats, is_start, pos, cg) ==
    [fn |-> fn, pats |-> pats, i |-> 1, is_start |-> is_start, entry |-> pos,
     ic |-> pos, cl |-> pos, ph |-> IF fn = "mfcp" THEN "node" ELSE "enter",
     j |-> 0, gn |-> 0, cg |-> cg, s_ic |-> pos, s_cg |-> EmptyTable]

Top == stack[Len(stack)]

Caller == stack[Len(stack) - 1]

Pop(s) == SubSeq(s, 1, Len(s) - 1)

SetTop(s, f) == [s EXCEPT ![Len(s)] = f]

\* The frame f as it makes a call: the history fields take the cursor and
\* the table of the moment.
Calling(f, ph) == [f EXCEPT !.ph = ph, !.s_ic = f.ic, !.s_cg = tables[f.cg]]

\* Which local of the calling frame a callee's input_chars refers to: the
\* clone of an alternation or of match_pattern's search loops, else the
\* input_clone (match_pattern: input_chars).
WritesClone(caller) == caller.ph \in {"alt", "end", "none"}

\* "*input_chars = input_clone" executed by the callee, on the caller frame.
WriteCursor(caller, pos) ==
    IF WritesClone(caller) THEN [caller EXCEPT !.cl = pos] ELSE [caller EXCEPT !.ic = pos]

\* The top frame returns ok; when write, it has assigned pos through its
\* input_chars reference.
Return(ok, write, pos) ==
    /\ stack' = IF write THEN SetTop(Pop(stack), WriteCursor(Caller, pos)) ELSE Pop(stack)
    /\ ret' = Returned(ok)

\* ------------------------------------------------------------ the inputs
PatChars == {"a", "b", "(", ")", "|", "+", "?", "^", "$", "."}

InputChars == {"a", "b"}

SeqsUpTo(S, n) == UNION {[1..m -> S] : m \in 0..n}

ScenarioPatterns ==
    { <<"a", "?", "b">>,
      <<"(", "a", ")", "\\", "1">>,
      <<"(", "a", "?", ")", "+">>,
      <<"(", "a", "?", ")", "\\", "1", "+">>,
      <<"(", "(", "a", ")", "b", ")">>,
      <<"(", "a", "|", "a", "b", ")", "c">>,
      <<"(", "a", "|", "b", ")", "\\", "1">>,
      <<"a", "+", "a">>,
      <<"^", "a", "+", "$">>,
      <<"a", "b", "?", "$">>,
      <<"\\", "d", "+">>,
      <<"^", "\\", "w", "+", "$">>,
      <<"[", "^", "a", "b", "]">>,
      <<"[", "a", "b", "]", "+">>,
      <<"(", "a", "|", ")">>,
      <<"(", "a", "|", "|", "b", ")", "?">>,
      <<"(", "a", ")", "?", "b">>,
      <<"(", "(", "a", ")", "b", ")", "?">>,
      <<"(", "(", "a", ")", "b", "|", "a", ")">>,
      <<"(", "a", "b", ")", "\\", "1">>,
      <<"(", "a", "+", ")", "\\", "1">>,
      <<"(", ".", ")", "\\", "1">>,
      <<"(", "a", "|", "b", ")">>,
      <<"(", "(", "a", "|", "b", ")", "|", "a", ")">>,
      <<"\\", "1">>,
      <<"\\", "1", "+">>,
      <<"a", "\\", "2", "?">>,
      <<"\\", "+", "\\", "\\">>,
      <<"a", "\\">>,
      <<"(", "a", ")", "(", "b", ")", "\\", "2", "\\", "1">> }

ScenarioInputs ==
    { <<"c", "b">>, <<"a", "b", "c">>, <<"a", "a", "a">>, <<"a", "1">>, <<"a", "b", "a", "b">> }

PatternStrings == ScenarioPatterns \cup SeqsUpTo(PatChars, MaxPatLen)

InputLines == ScenarioInputs \cup SeqsUpTo(InputChars, MaxInputLen)

Init ==
    /\ pattern_str \in PatternStrings
    /\ input_line \in InputLines
    /\ patterns = <<>>
    /\ pc = "start"
    /\ stack = <<>>
    /\ tables = <<>>
    /\ ret = NoRet
    /\ result = FALSE
    /\ attempts = <<>>
    /\ seq = <<>>

\* ----------------------------------------------------------- match_pattern
starts_with_anchor(ps) == Len(ps) > 0 /\ ps[1].t = "Start"

ends_with_anchor(ps) == Len(ps) > 0 /\ ps[Len(ps)].t = "End"

\* Which branch of match_pattern's if a compiled pattern takes.
Branch(ps) ==
    IF starts_with_anchor(ps) /\ ends_with_anchor(ps) THEN "both"
    ELSE IF starts_with_anchor(ps) THEN "start"
    ELSE IF ends_with_anchor(ps) THEN "end"
    ELSE "none"

Attempt(start) == [start |-> start, returned |-> FALSE, ok |-> FALSE, end |-> start]

\* match_pattern up to its if: compile, create the cursor and the table.
MatchPatternStart ==
    /\ pc = "start"
    /\ patterns' = parse_pattern(pattern_str)
    /\ stack' = <<[Frame("match_pattern", patterns', FALSE, 0, 1) EXCEPT !.ph = Branch(patterns')]>>
    /\ tables' = <<EmptyTable>>
    /\ pc' = "run"
    /\ UNCHANGED <<pattern_str, input_line, ret, result, attempts, seq>>

AtMatchPattern(phs) ==
    /\ pc = "run"
    /\ Len(stack) = 1
    /\ Top.fn = "match_pattern"
    /\ Top.ph \in phs

\* The two anchored branches: one call on input_chars and captured_groups.
MatchPatternAnchored ==
    /\ AtMatchPattern({"both", "start"})
    /\ ~ret.set
    /\ stack' = Append(stack, Frame("mfcp", patterns, TRUE, Top.ic, 1))
    /\ attempts' = Append(attempts, Attempt(Top.ic))
    /\ UNCHANGED <<pattern_str, input_line, patterns, pc, tables, ret, result, seq>>

\* The head of the two while loops: with input left, clone the cursor and
\* the table and call; without, fall out of the loop and return false.
MatchPatternLoop ==
    /\ AtMatchPattern({"end", "none"})
    /\ ~ret.set
    /\ IF Top.ic < Len(input_line)
       THEN /\ stack' = Append(SetTop(stack, [Top EXCEPT !.cl = Top.ic]),
                               Frame("mfcp", patterns, FALSE, Top.ic, 2))
            /\ tables' = Append(tables, tables[1])
            /\ attempts' = Append(attempts, Attempt(Top.ic))
            /\ UNCHANGED <<pc, result>>
       ELSE /\ pc' = "done"
            /\ result' = FALSE
            /\ UNCHANGED <<stack, tables, attempts>>
    /\ UNCHANGED <<pattern_str, input_line, patterns, ret, seq>>

\* The top-level call has returned.
MatchPatternReturn ==
    /\ AtMatchPattern({"both", "start", "end", "none"})
    /\ ret.set
    /\ ret' = NoRet
    /\ LET cursor == IF WritesClone(Top) THEN Top.cl ELSE Top.ic
       IN attempts' = [attempts EXCEPT ![Len(attempts)] =
                          [@ EXCEPT !.returned = TRUE, !.ok = ret.ok, !.end = cursor]]
    /\ IF Top.ph \in {"both", "start"}
       THEN /\ pc' = "done"
            /\ result' = ret.ok
            /\ UNCHANGED <<stack, tables>>
       ELSE IF ret.ok /\ (Top.ph = "end" => ~(Top.cl < Len(input_line)))
       THEN /\ pc' = "done"
            /\ result' = TRUE
            /\ UNCHANGED <<stack, tables>>
       ELSE /\ stack' = SetTop(stack, [Top EXCEPT !.ic = Min(Top.ic + 1, Len(input_line))])
            /\ tables' = Pop(tables)
            /\ UNCHANGED <<pc, result>>
    /\ UNCHANGED <<pattern_str, input_line, patterns, seq>>

\* --------------------------------------------- match_from_current_position
Frozen == UNCHANGED <<pattern_str, input_line, patterns, result, attempts, seq>>

\* The top frame is a match_from_current_position at a node of variant t.
AtNode(ts) ==
    /\ pc = "run"
    /\ stack # <<>>
    /\ ~ret.set
    /\ Top.fn = "mfcp"
    /\ Top.ph = "node"
    /\ Top.i <= Len(Top.pats)
    /\ Top.pats[Top.i].t \in ts

\* The top frame is fn, waiting in ph, and its callee has returned.
AtReturn(fn, ph) ==
    /\ pc = "run"
    /\ stack # <<>>
    /\ ret.set
    /\ Top.fn = fn
    /\ Top.ph = ph

\* The node matched: on to the next node with the cursor at pos.
Continue(pos) ==
    /\ stack' = SetTop(stack, [Top EXCEPT !.ic = pos, !.i = @ + 1, !.ph = "node"])
    /\ ret' = NoRet

\* "return false"
Fail == Return(FALSE, FALSE, 0)

\* The top frame calls match_subpattern on pattern p with its input_clone
\* and its captured_groups, and waits in ph.
CallSub(p, ph) ==
    /\ stack' = Append(SetTop(stack, Calling(Top, ph)), Frame("msub", <<p>>, FALSE, Top.ic, Top.cg))
    /\ ret' = NoRet

\* The top frame calls match_from_current_position on subpatterns with its
\* input_clone and its captured_groups, is_start false, and waits in "group".
CallSeq(subpatterns, f) ==
    /\ stack' = Append(SetTop(stack, Calling(f, "group")),
                       Frame("mfcp", subpatterns, FALSE, f.ic, f.cg))
    /\ ret' = NoRet

\* The for loop is over: "*input_chars = input_clone; true".
MfcpDone ==
    /\ pc = "run" /\ stack # <<>> /\ ~ret.set
    /\ Top.fn = "mfcp" /\ Top.ph = "node" /\ Top.i > Len(Top.pats)
    /\ Return(TRUE, TRUE, Top.ic)
    /\ UNCHANGED <<pc, tables>> /\ Frozen

MfcpLiteral ==
    /\ AtNode({"Literal"})
    /\ LET r == match_literal(Top.pats[Top.i].s, input_line, Top.ic)
       IN IF r.ok THEN Continue(r.pos) ELSE Fail
    /\ UNCHANGED <<pc, tables>> /\ Frozen

MfcpStart ==
    /\ AtNode({"Start"})
    /\ IF Top.i # 1 \/ ~Top.is_start THEN Fail ELSE Continue(Top.ic)
    /\ UNCHANGED <<pc, tables>> /\ Frozen

\* Mutant of MfcpEnd: the End arm without its peek, so End succeeds with
\* input left.
MfcpEnd_NoPeek ==
    /\ AtNode({"End"})
    /\ IF Top.i # Len(Top.pats) THEN Fail ELSE Continue(Top.ic)
    /\ UNCHANGED <<pc, tables>> /\ Frozen

MfcpEnd ==
    /\ AtNode({"End"})
    /\ IF Top.i # Len(Top.pats) \/ Top.ic < Len(input_line) THEN Fail ELSE Continue(Top.ic)
    /\ UNCHANGED <<pc, tables>> /\ Frozen

\* The "_" arm: the class patterns.
MfcpClass ==
    /\ AtNode({"Digit", "Alphanumeric", "AnyChar", "CharGroup"})
    /\ LET r == match_class(Top.pats[Top.i], input_line, Top.ic)
       IN IF r.ok THEN Continue(r.pos) ELSE Fail
    /\ UNCHANGED <<pc, tables>> /\ Frozen

\* OneOrMore: the first call of match_subpattern.
MfcpOneOrMore ==
    /\ AtNode({"OneOrMore"})
    /\ CallSub(Top.pats[Top.i].k[1], "oom_first")
    /\ UNCHANGED <<pc, tables>> /\ Frozen

\* Mutant of MfcpOneOrMoreFirstRet: after the first success the node is
\* done, with no while loop.
MfcpOneOrMoreFirstRet_Once ==
    /\ AtReturn("mfcp", "oom_first")
    /\ IF ret.ok THEN Continue(Top.ic) ELSE Fail
    /\ UNCHANGED <<pc, tables>> /\ Frozen

\* OneOrMore: the first call has returned; on success the while loop makes
\* its first call.
MfcpOneOrMoreFirstRet ==
    /\ AtReturn("mfcp", "oom_first")
    /\ IF ret.ok THEN CallSub(Top.pats[Top.i].k[1], "oom_loop") ELSE Fail
    /\ UNCHANGED <<pc, tables>> /\ Frozen

\* OneOrMore: a call of the while loop has returned; on success the loop
\* calls again, else the node is done.
MfcpOneOrMoreLoopRet ==
    /\ AtReturn("mfcp", "oom_loop")
    /\ IF ret.ok THEN CallSub(Top.pats[Top.i].k[1], "oom_loop") ELSE Continue(Top.ic)
    /\ UNCHANGED <<pc, tables>> /\ Frozen

MfcpZeroOrOne ==
    /\ AtNode({"ZeroOrOne"})
    /\ CallSub(Top.pats[Top.i].k[1], "zoo")
    /\ UNCHANGED <<pc, tables>> /\ Frozen

\* Mutant of MfcpZeroOrOneRet: an absent inner pattern fails the sequence.
MfcpZeroOrOneRet_Required ==
    /\ AtReturn("mfcp", "zoo")
    /\ IF ret.ok THEN Continue(Top.ic) ELSE Fail
    /\ UNCHANGED <<pc, tables>> /\ Frozen

\* ZeroOrOne: either way on to the next node.
MfcpZeroOrOneRet ==
    /\ AtReturn("mfcp", "zoo")
    /\ Continue(Top.ic)
    /\ UNCHANGED <<pc, tables>> /\ Frozen

MfcpGroup ==
    /\ AtNode({"Group"})
    /\ CallSeq(Top.pats[Top.i].k, Top)
    /\ UNCHANGED <<pc, tables>> /\ Frozen

MfcpGroupRet ==
    /\ AtReturn("mfcp", "group")
    /\ IF ret.ok THEN Continue(Top.ic) ELSE Fail
    /\ UNCHANGED <<pc, tables>> /\ Frozen

MfcpBackReference ==
    /\ AtNode({"BackReference"})
    /\ CallSub(Top.pats[Top.i], "backref")
    /\ UNCHANGED <<pc, tables>> /\ Frozen

MfcpBackReferenceRet ==
    /\ AtReturn("mfcp", "backref")
    /\ IF ret.ok THEN Continue(Top.ic) ELSE Fail
    /\ UNCHANGED <<pc, tables>> /\ Frozen

\* ------------------------------------------------------------ alternation
\* The pattern a frame is evaluating.
Current(f) == IF f.fn = "mfcp" THEN f.pats[f.i] ELSE f.pats[1]

\* The table an alternative is tried against: "captured_groups.clone()".
BranchTable(tbls, f) == tbls[f.cg]

\* Mutant of TryAlternative: the alternatives are taken from the last to
\* the first.
TryAlternative_RightToLeft(f, j, tbls) ==
    LET alternatives == Current(f).k
    IN IF j <= Len(alternatives)
       THEN /\ stack' = Append(SetTop(stack, [(IF j = 1 THEN Calling(f, "alt") ELSE f)
                                                  EXCEPT !.j = j, !.cl = f.ic]),
                               Frame("msub", <<alternatives[Len(alternatives) + 1 - j]>>,
                                     FALSE, f.ic, Len(tbls) + 1))
            /\ tables' = Append(tbls, BranchTable(tbls, f))
            /\ ret' = NoRet
       ELSE /\ Fail
            /\ tables' = tbls

\* The for loop over the alternatives, from alternative j on, of frame f
\* (the top frame) with the live tables tbls: clone the cursor and the table
\* and call match_subpattern on the clones; with no alternative left the
\* frame returns false.
TryAlternative(f, j, tbls) ==
    LET alternatives == Current(f).k
    IN IF j <= Len(alternatives)
       THEN /\ stack' = Append(SetTop(stack, [(IF j = 1 THEN Calling(f, "alt") ELSE f)
                                                  EXCEPT !.j = j, !.cl = f.ic]),
                               Frame("msub", <<alternatives[j]>>, FALSE, f.ic, Len(tbls) + 1))
            /\ tables' = Append(tbls, BranchTable(tbls, f))
            /\ ret' = NoRet
       ELSE /\ Fail
            /\ tables' = tbls

\* "*captured_groups = clone_captured", the clone being the last live table.
CommitTable(tbls, f) == [Pop(tbls) EXCEPT ![f.cg] = tbls[Len(tbls)]]

\* Mutant of DropTable: the table of a failed alternative is committed too.
DropTable_Commit(tbls, f) == CommitTable(tbls, f)

\* A failed alternative: its clones are dropped.
DropTable(tbls, f) == Pop(tbls)

MfcpAlternation ==
    /\ AtNode({"Alternation"})
    /\ TryAlternative(Top, 1, tables)
    /\ UNCHANGED pc /\ Frozen

\* An alternative has returned, to match_from_current_position or to
\* match_subpattern.  On success both commit the table; the first also
\* commits the cursor and goes on, the second returns true at once, before
\* its "*input_chars = input_clone".  On failure the next alternative.
AlternationRet ==
    /\ pc = "run" /\ stack # <<>> /\ ret.set
    /\ Top.ph = "alt"
    /\ IF ret.ok
       THEN /\ tables' = CommitTable(tables, Top)
            /\ IF Top.fn = "mfcp" THEN Continue(Top.cl) ELSE Return(TRUE, FALSE, 0)
       ELSE TryAlternative(Top, Top.j + 1, DropTable(tables, Top))
    /\ UNCHANGED pc /\ Frozen

\* --------------------------------------------------------- match_subpattern
AtSub(ts) ==
    /\ pc = "run"
    /\ stack # <<>>
    /\ ~ret.set
    /\ Top.fn = "msub"
    /\ Top.ph = "enter"
    /\ Top.pats[1].t \in ts

\* Mutant of Matched: the cursor is written back whether or not the pattern
\* matched.
Matched_WriteAlways(r) == Return(r.ok, TRUE, r.pos)

\* "if matched { *input_chars = input_clone }; matched"
Matched(r) == IF r.ok THEN Return(TRUE, TRUE, r.pos) ELSE Fail

MsubLiteral ==
    /\ AtSub({"Literal"})
    /\ Matched(match_literal(Top.pats[1].s, input_line, Top.ic))
    /\ UNCHANGED <<pc, tables>> /\ Frozen

MsubClass ==
    /\ AtSub({"Digit", "Alphanumeric", "AnyChar", "CharGroup"})
    /\ Matched(match_class(Top.pats[1], input_line, Top.ic))
    /\ UNCHANGED <<pc, tables>> /\ Frozen

\* Group: group_num is taken, then the sequence is called.
MsubGroup ==
    /\ AtSub({"Group"})
    /\ CallSeq(Top.pats[1].k, [Top EXCEPT !.gn = TableLen(tables[Top.cg]) + 1])
    /\ UNCHANGED <<pc, tables>> /\ Frozen

\* The table after "captured_groups.insert(group_num, captured)".
Recorded(f) == TableInsert(tables[f.cg], f.gn, extract_captured(input_line, f.entry, f.ic))

\* Group: the sequence has returned; on success the capture is recorded.
MsubGroupRet ==
    /\ AtReturn("msub", "group")
    /\ IF ret.ok
       THEN IF TableLen(Recorded(Top)) > MaxCaptures
            THEN /\ pc' = "exhausted"
                 /\ UNCHANGED <<stack, tables, ret>>
            ELSE /\ tables' = [tables EXCEPT ![Top.cg] = Recorded(Top)]
                 /\ Return(TRUE, TRUE, Top.ic)
                 /\ UNCHANGED pc
       ELSE /\ Fail
            /\ UNCHANGED <<pc, tables>>
    /\ Frozen

\* Mutant of backreference: a group that was never captured counts as
\* having captured the empty string.
backreference_AbsentIsEmpty(p, cg, input, pos) ==
    IF p.n \in DOMAIN cg
    THEN match_literal(cg[p.n], input, pos)
    ELSE [ok |-> TRUE, pos |-> pos]

\* The outcome of the BackReference arm on table cg at cursor pos.
backreference(p, cg, input, pos) ==
    IF p.n \in DOMAIN cg
    THEN match_literal(cg[p.n], input, pos)
    ELSE [ok |-> FALSE, pos |-> pos]

MsubBackReference ==
    /\ AtSub({"BackReference"})
    /\ Matched(backreference(Top.pats[1], tables[Top.cg], input_line, Top.ic))
    /\ UNCHANGED <<pc, tables>> /\ Frozen

\* The "_" arm (OneOrMore, ZeroOrOne, Start, End): false.  The Alternation
\* arm, which no compiled pattern reaches (a quantifier's inner pattern and
\* an alternative are never an Alternation), is the IF's first branch.
MsubOther ==
    /\ AtSub({"OneOrMore", "ZeroOrOne", "Start", "End", "Alternation"})
    /\ IF Top.pats[1].t = "Alternation"
       THEN TryAlternative(Top, 1, tables)
       ELSE Fail /\ UNCHANGED tables
    /\ UNCHANGED pc /\ Frozen

\* -------------------------------------------------------------------- spec
Next ==
    \/ MatchPatternStart \/ MatchPatternAnchored \/ MatchPatternLoop \/ MatchPatternReturn
    \/ MfcpDone \/ MfcpLiteral \/ MfcpStart \/ MfcpEnd \/ MfcpClass
    \/ MfcpOneOrMore \/ MfcpOneOrMoreFirstRet \/ MfcpOneOrMoreLoopRet
    \/ MfcpZeroOrOne \/ MfcpZeroOrOneRet
    \/ MfcpGroup \/ MfcpGroupRet
    \/ MfcpBackReference \/ MfcpBackReferenceRet
    \/ MfcpAlternation \/ AlternationRet
    \/ MsubLiteral \/ MsubClass \/ MsubGroup \/ MsubGroupRet \/ MsubBackReference \/ MsubOther

Spec == Init /\ [][Next]_vars

\* The code is sequential: a call in progress always takes its next step.
FairSpec == Init /\ [][Next]_vars /\ WF_vars(Next)

Done == pc = "done"

\* ------------------------------------------------------------- the sweep
\* SpecSweep applies match_from_current_position (is_start false, a fresh
\* table) to the compiled pattern from every offset 0..Len(input_line) in
\* turn, the way the body of match_pattern's search loops calls it, records
\* each outcome in seq, and then runs match_pattern on the same inputs.
InitSweep ==
    /\ pattern_str \in PatternStrings
    /\ input_line \in InputLines
    /\ patterns = <<>>
    /\ pc = "sweep"
    /\ stack = <<>>
    /\ tables = <<>>
    /\ ret = NoRet
    /\ result = FALSE
    /\ attempts = <<>>
    /\ seq = <<>>

AtSweep ==
    /\ pc = "run"
    /\ Len(stack) = 1
    /\ Top.fn = "sweep"

SweepStart ==
    /\ pc = "sweep"
    /\ patterns' = parse_pattern(pattern_str)
    /\ stack' = <<[Frame("sweep", patterns', FALSE, 0, 1) EXCEPT !.ph = "none"]>>
    /\ tables' = <<EmptyTable>>
    /\ pc' = "run"
    /\ UNCHANGED <<pattern_str, input_line, ret, result, attempts, seq>>

\* The next offset, or, past the last one, on to match_pattern.
SweepLoop ==
    /\ AtSweep
    /\ ~ret.set
    /\ IF Top.ic <= Len(input_line)
       THEN /\ stack' = Append(SetTop(stack, [Top EXCEPT !.cl = Top.ic]),
                               Frame("mfcp", patterns, FALSE, Top.ic, 2))
            /\ tables' = Append(tables, tables[1])
            /\ UNCHANGED <<pc, patterns>>
       ELSE /\ pc' = "start"
            /\ stack' = <<>>
            /\ tables' = <<>>
            /\ patterns' = <<>>
    /\ UNCHANGED <<pattern_str, input_line, ret, result, attempts, seq>>

SweepReturn ==
    /\ AtSweep
    /\ ret.set
    /\ ret' = NoRet
    /\ seq' = Append(seq, [ok |-> ret.ok, end |-> Top.cl])
    /\ stack' = SetTop(stack, [Top EXCEPT !.ic = @ + 1])
    /\ tables' = Pop(tables)
    /\ UNCHANGED <<pattern_str, input_line, patterns, pc, result, attempts>>

NextSweep == Next \/ SweepStart \/ SweepLoop \/ SweepReturn

SpecSweep == InitSweep /\ [][NextSweep]_vars

\* The sweep is complete: seq holds the outcome from every offset.
Swept == Len(seq) = Len(input_line) + 1

\* The compiled sequence matches from offset o (and ends at cursor e).
SeqMatchesFrom(o) == seq[o + 1].ok

SeqEndFrom(o) == seq[o + 1].end

\* ------------------------------------------------------------------ claims
\* C1: for a pattern with neither a leading Start nor a trailing End, and
\* any input line (the empty one included), match_pattern returns true iff
\* the compiled sequence matches from at least one offset of the line, the
\* offset at its end (the empty substring) included.
C1_SubstringSearch ==
    (Done /\ Swept /\ Branch(patterns) = "none")
        => (result <=> \E o \in 0..Len(input_line) : SeqMatchesFrom(o))

\* C2: for a pattern whose first node is Start and last node is End,
\* match_pattern makes exactly one attempt, from offset 0, and returns true
\* iff that attempt succeeds having consumed the whole line.
C2_BothAnchorsOneAttempt ==
    (Done /\ Branch(patterns) = "both")
        => /\ Len(attempts) = 1
           /\ attempts[1].start = 0
           /\ result <=> (attempts[1].ok /\ attempts[1].end = Len(input_line))

\* C2 witness: a both-anchored pattern has matched a line that is not empty.
C2_Witness ==
    Done /\ Branch(patterns) = "both" /\ result /\ Len(input_line) > 0

\* C3: for a pattern whose last node is End and whose first is not Start,
\* match_pattern returns true iff from some offset 0..Len(input_line), the
\* end of the line included, the sequence matches and leaves no input.
C3_EndSearch ==
    (Done /\ Swept /\ Branch(patterns) = "end")
        => (result <=> \E o \in 0..Len(input_line) :
                           SeqMatchesFrom(o) /\ SeqEndFrom(o) = Len(input_line))

PatOptAThenB == <<"a", "?", "b">>

\* C4 as stated: a?b matches "b" and "ab" and does not match "cb".
C4_AsStated ==
    (Done /\ pattern_str = PatOptAThenB)
        => /\ input_line = <<"b">> => result
           /\ input_line = <<"a", "b">> => result
           /\ input_line = <<"c", "b">> => ~result

\* C4 amended: a?b matches "b", "ab" and also "cb" (from offset 1).
C4_OptionalThenLiteral ==
    (Done /\ pattern_str = PatOptAThenB
          /\ input_line \in {<<"b">>, <<"a", "b">>, <<"c", "b">>})
        => result

\* C4 witness: a?b has been matched against "cb", at the second offset.
C4_Witness ==
    /\ Done /\ pattern_str = PatOptAThenB /\ input_line = <<"c", "b">>
    /\ Len(attempts) = 2 /\ attempts[2].ok

\* The step at a return to a quantifier: the first call of a OneOrMore
\* having failed, the sequence returns false; a ZeroOrOne goes on to the
\* next node, after a failed inner pattern with the cursor and the table
\* recorded when the call was made.
C5_QuantifierStep ==
    /\ (AtReturn("mfcp", "oom_first") /\ ~ret.ok)
           => (ret' = Returned(FALSE) /\ stack' = Pop(stack))
    /\ AtReturn("mfcp", "zoo")
           => /\ Len(stack') = Len(stack)
              /\ Top'.i = Top.i + 1
              /\ Top'.ph = "node"
              /\ ~ret'.set
              /\ ~ret.ok => (Top'.ic = Top.s_ic /\ tables'[Top.cg] = Top.s_cg)

\* C5: in sequence evaluation, a OneOrMore whose inner pattern does not
\* match at the cursor fails the whole attempt (it never succeeds with zero
\* occurrences); a ZeroOrOne never fails it: evaluation goes on to the next
\* node, and when the inner pattern did not match, with the cursor and the
\* capture table as they were before the inner pattern was tried.
C5_QuantifierLaws == [][C5_QuantifierStep]_vars

\* C5 witness: an optional group has just failed to match with input left.
C5_Witness ==
    /\ AtReturn("mfcp", "zoo") /\ ~ret.ok
    /\ Current(Top).k[1].t = "Group"
    /\ Top.ic < Len(input_line)

\* The pattern of the match_subpattern call frame f is waiting for.
SubCalled(f) == IF f.ph = "backref" THEN Current(f) ELSE Current(f).k[1]

\* text occurs literally in the line at cursor pos.
OccursAt(text, pos) ==
    /\ pos + Len(text) <= Len(input_line)
    /\ SubSeq(input_line, pos + 1, pos + Len(text)) = text

\* The compiled pattern is (X)\1: a group, then a reference to group 1.
IsGroupThenBackRef(ps) ==
    Len(ps) = 2 /\ ps[1].t = "Group" /\ ps[2] = BackReference(1)

\* C6: a BackReference fails when its index is not in the capture table,
\* and otherwise succeeds exactly when the captured text occurs literally
\* at the cursor, which it then advances by the length of that text; so a
\* match of (X)\1 is some text followed at once by the same text again.
C6_BackReferenceLaw ==
    /\ ( /\ pc = "run" /\ stack # <<>> /\ ret.set /\ Top.fn = "mfcp"
         /\ Top.ph \in {"backref", "oom_first", "oom_loop", "zoo"}
         /\ SubCalled(Top).t = "BackReference" )
           => LET n == SubCalled(Top).n
                  present == n \in DOMAIN Top.s_cg
              IN /\ ret.ok <=> (present /\ OccursAt(Top.s_cg[n], Top.s_ic))
                 /\ ret.ok => Top.ic = Top.s_ic + Len(Top.s_cg[n])
                 /\ ~ret.ok => Top.ic = Top.s_ic
                 /\ tables[Top.cg] = Top.s_cg
    /\ (Done /\ result /\ IsGroupThenBackRef(patterns))
           => LET a == attempts[Len(attempts)]
                  half == (a.end - a.start) \div 2
              IN /\ a.end - a.start = 2 * half
                 /\ SubSeq(input_line, a.start + 1, a.start + half)
                        = SubSeq(input_line, a.start + half + 1, a.end)

\* C6 witness: (X)\1 has matched, group 1 holding text that is not empty.
C6_Witness ==
    /\ Done /\ result /\ IsGroupThenBackRef(patterns)
    /\ attempts[Len(attempts)].end > attempts[Len(attempts)].start

\* C7: every call of match_pattern completes with a boolean (short of the
\* model's bound on the capture table, which ends a run in "exhausted").
C7_Terminates == <>(pc = "done" \/ pc = "exhausted")

\* match_pattern has just compiled the pattern.
Compiled ==
    /\ pc = "run" /\ Len(stack) = 1 /\ Top.fn = "match_pattern"
    /\ ~ret.set /\ attempts = <<>>

\* The parenthesis depth of the characters of s before index i.
DepthBefore(s, i) ==
    Cardinality({m \in 1..(i - 1) : s[m] = "("}) - Cardinality({m \in 1..(i - 1) : s[m] = ")"})

\* The pattern string is one parenthesized group: its first character opens
\* a group that its last character closes.
IsOneGroup(s) ==
    /\ Len(s) >= 2 /\ s[1] = "(" /\ s[Len(s)] = ")"
    /\ \A i \in 2..Len(s) : DepthBefore(s, i) >= 1
    /\ DepthBefore(s, Len(s) + 1) = 0

Inner(s) == SubSeq(s, 2, Len(s) - 1)

\* The depth-0 "|" of a group's inner text, and the segments they split it
\* into (one more than there are bars, the empty ones included).
Bars(s) == {i \in 1..Len(s) : s[i] = "|" /\ DepthBefore(s, i) = 0}

NthBar(s, n) == CHOOSE i \in Bars(s) : Cardinality({m \in Bars(s) : m < i}) = n - 1

Segments(s) ==
    [n \in 1..(Cardinality(Bars(s)) + 1) |->
        SubSeq(s, (IF n = 1 THEN 0 ELSE NthBar(s, n - 1)) + 1,
                  (IF n = Cardinality(Bars(s)) + 1 THEN Len(s) + 1 ELSE NthBar(s, n)) - 1)]

\* One Group-wrapped, independently compiled branch per segment.
Branches(segs) == [n \in 1..Len(segs) |-> Group(parse_pattern(segs[n]))]

\* The segments without an empty last one.
KeptSegments(s) ==
    LET segs == Segments(s)
    IN IF segs[Len(segs)] = <<>> THEN SubSeq(segs, 1, Len(segs) - 1) ELSE segs

\* C8 as stated: a group with a depth-0 "|" compiles to an Alternation of
\* one Group-wrapped branch per segment (taken here as the Alternation
\* itself or a Group holding just it); a group without compiles to a plain
\* Group of the compiled inner text, with no Alternation node.
C8_AsStated ==
    (Compiled /\ IsOneGroup(pattern_str))
        => LET inner == Inner(pattern_str)
               alt == Alternation(Branches(Segments(inner)))
           IN IF Bars(inner) # {}
              THEN patterns \in {<<alt>>, <<Group(<<alt>>)>>}
              ELSE patterns = <<Group(parse_pattern(inner))>>

\* C8 amended: every group compiles to a Group whose sequence is the single
\* node Alternation(branches), one Group-wrapped, independently compiled
\* branch per segment of the split of the inner text at its depth-0 "|" (one
\* segment when there is none), an empty last segment giving no branch.
C8_GroupIsAlternation ==
    (Compiled /\ IsOneGroup(pattern_str))
        => patterns = <<Group(<<Alternation(Branches(KeptSegments(Inner(pattern_str))))>>)>>

\* C8 witness: a group with no depth-0 "|" and a body has been compiled.
C8_Witness ==
    /\ Compiled /\ IsOneGroup(pattern_str)
    /\ Bars(Inner(pattern_str)) = {} /\ Inner(pattern_str) # <<>>

\* C9: a successful group match is recorded under an index that is one
\* greater than the number of groups captured so far, which no entry of the
\* table has yet, so that the table grows by exactly one entry.
C9_UniqueIndex ==
    (AtReturn("msub", "group") /\ ret.ok)
        => /\ Top.gn = TableLen(tables[Top.cg]) + 1
           /\ Top.gn \notin DOMAIN tables[Top.cg]
           /\ TableLen(Recorded(Top)) = TableLen(tables[Top.cg]) + 1

\* While the alternatives of an Alternation are tried, the
\* cursor and the capture table of the evaluating call stay as they were
\* when the Alternation was reached, and every alternative starts on a copy
\* of that cursor and on a table of its own that is a copy of that table.
C10_Untouched ==
    /\ \A d \in 1..Len(stack) :
           stack[d].ph = "alt"
               => (stack[d].ic = stack[d].s_ic /\ tables[stack[d].cg] = stack[d].s_cg)
    /\ (Len(stack) >= 2 /\ Top.fn = "msub" /\ Top.ph = "enter" /\ Caller.ph = "alt")
           => /\ Top.ic = Caller.s_ic
              /\ Top.cg # Caller.cg
              /\ tables[Top.cg] = Caller.s_cg

\* The step at the return of an alternative: a success commits the
\* clones (cursor and table) and ends the Alternation; a failure leads to
\* the next alternative or, after the last one, to the failure of the
\* Alternation with the table as it was.
C10_Step ==
    (pc = "run" /\ stack # <<>> /\ ret.set /\ Top.ph = "alt")
        => IF ret.ok
           THEN /\ Len(tables') = Len(tables) - 1
                /\ tables'[Top.cg] = tables[Len(tables)]
                /\ Top.fn = "mfcp"
                       => (Len(stack') = Len(stack) /\ Top'.ic = Top.cl
                           /\ Top'.i = Top.i + 1 /\ Top'.ph = "node")
           ELSE IF Top.j < Len(Current(Top).k)
           THEN /\ Len(stack') = Len(stack) + 1
                /\ stack'[Len(stack)].j = Top.j + 1
                /\ stack'[Len(stack)].ic = Top.s_ic
                /\ tables'[Top.cg] = Top.s_cg
           ELSE /\ ret' = Returned(FALSE)
                /\ stack' = Pop(stack)
                /\ Len(tables') = Len(tables) - 1
                /\ tables'[Top.cg] = Top.s_cg

\* C10: a failed alternative leaves the real cursor and capture table as
\* they were, only the first succeeding one commits, and when none succeeds
\* the Alternation fails with both unchanged.
C10_AlternationFrame == []C10_Untouched /\ [][C10_Step]_vars

\* C10 witness: an alternative has failed after a capture was recorded in
\* its own table.
C10_Witness ==
    /\ pc = "run" /\ stack # <<>> /\ ret.set /\ ~ret.ok /\ Top.ph = "alt"
    /\ tables[Len(tables)] # tables[Top.cg]

\* The outcome of a pattern that reads at most one character and no capture
\* (a Literal or a class), at cursor pos.
Try(p, pos) ==
    IF p.t = "Literal" THEN match_literal(p.s, input_line, pos) ELSE match_class(p, input_line, pos)

IsPlain(p) == p.t \in {"Literal", "Digit", "Alphanumeric", "AnyChar", "CharGroup"}

PatPlusAThenA == <<"a", "+", "a">>

OnlyAs(line) == \A m \in 1..Len(line) : line[m] = "a"

\* The top frame is a match_from_current_position in its OneOrMore arm and
\* the call of the inner pattern it waits for has returned.
OneOrMoreRet == AtReturn("mfcp", "oom_first") \/ AtReturn("mfcp", "oom_loop")

\* The attempts of match_pattern start at strictly increasing offsets, and
\* a+a has matched no line made only of the character a.
C11_NoMatch ==
    /\ \A m, n \in DOMAIN attempts : m < n => attempts[m].start < attempts[n].start
    /\ (Done /\ pattern_str = PatPlusAThenA /\ OnlyAs(input_line)) => ~result

\* The steps of the OneOrMore arm: a success of the inner pattern is
\* followed by another call of it at the cursor it left; the first failure
\* after a success hands the cursor of that failing call to the next node;
\* and no frame ever steps back to an earlier node.
C11_Step ==
    /\ (OneOrMoreRet /\ ret.ok)
           => /\ Len(stack') = Len(stack) + 1
              /\ stack'[Len(stack)].ph = "oom_loop"
              /\ stack'[Len(stack)].i = Top.i
              /\ Top'.fn = "msub"
              /\ Top'.pats = <<Top.pats[Top.i].k[1]>>
              /\ Top'.entry = Top.ic
              /\ Top.ic >= Top.s_ic
    /\ (AtReturn("mfcp", "oom_loop") /\ ~ret.ok)
           => /\ Len(stack') = Len(stack)
              /\ Top'.i = Top.i + 1
              /\ Top'.ph = "node"
              /\ Top'.ic = Top.s_ic
              /\ IsPlain(Top.pats[Top.i].k[1]) => ~Try(Top.pats[Top.i].k[1], Top'.ic).ok
              /\ (IsPlain(Top.pats[Top.i].k[1]) /\ Top.i = 1)
                     => /\ Top'.ic > Top.entry
                        /\ \A p \in Top.entry..(Top'.ic - 1) : Try(Top.pats[1].k[1], p).ok
    /\ \A d \in 1..Min(Len(stack), Len(stack')) : stack'[d].i >= stack[d].i

\* C11: OneOrMore is greedy with no give-back: after its first success the
\* inner pattern is called again at the advancing cursor until it fails, the
\* next node starts at the position of that first failure (the maximal
\* repetition count), no evaluation ever returns to the OneOrMore to try
\* fewer repetitions, each starting offset is attempted once, and so a+a
\* matches no line made only of the character a.
C11_GreedyNoGiveBack == []C11_NoMatch /\ [][C11_Step]_vars

\* C11 witness: a+a has been tried from every offset of "aaa" and rejected.
C11_Witness ==
    /\ Done /\ pattern_str = PatPlusAThenA /\ input_line = <<"a", "a", "a">>
    /\ Len(attempts) = 3 /\ ~result

PatAOrAbThenC == <<"(", "a", "|", "a", "b", ")", "c">>

\* The step calls an alternative: a frame is pushed under a frame that is
\* then among its alternatives.
Trial == stack # <<>> /\ Len(stack') = Len(stack) + 1 /\ stack'[Len(stack)].ph = "alt"

\* A frame among its alternatives is at one of them; match_pattern's
\* attempts are made one after the other at consecutive offsets; and
\* (a|ab)c has not matched "abc".
C12_NoMatch ==
    /\ \A d \in 1..Len(stack) :
           stack[d].ph = "alt" => stack[d].j \in 1..Len(Current(stack[d]).k)
    /\ \A m \in 1..(Len(attempts) - 1) :
           attempts[m].returned /\ attempts[m + 1].start = attempts[m].start + 1
    /\ (Done /\ pattern_str = PatAOrAbThenC /\ input_line = <<"a", "b", "c">>) => ~result

\* The steps of an Alternation: the first alternative called is the
\* leftmost; another one is called only at the failure of the one before
\* it, and is the next to the right, at the same cursor; a success ends the
\* Alternation with the cursor that alternative left; and no frame enters
\* its alternatives again at a node it has left.
C12_Step ==
    /\ Trial
           => LET c == stack'[Len(stack)]
              IN /\ Top'.fn = "msub"
                 /\ Top'.pats = <<Current(Top).k[c.j]>>
                 /\ Top'.entry = c.ic
                 /\ c.i = Top.i
                 /\ IF Top.ph = "alt"
                    THEN ret.set /\ ~ret.ok /\ c.j = Top.j + 1 /\ c.ic = Top.ic
                    ELSE ~ret.set /\ Current(Top).t = "Alternation" /\ c.j = 1
    /\ (pc = "run" /\ stack # <<>> /\ ret.set /\ ret.ok /\ Top.ph = "alt")
           => /\ Len(stack') <= Len(stack)
              /\ Top.fn = "mfcp"
                     => (Top'.i = Top.i + 1 /\ Top'.ph = "node" /\ Top'.ic = Top.cl)
    /\ \A d \in 1..Min(Len(stack), Len(stack')) :
           /\ stack[d].i <= stack'[d].i
           /\ (stack[d].ph # "alt" /\ stack'[d].ph = "alt") => (d = Len(stack) /\ ~ret.set)

\* C12: Alternation is ordered choice with commit: in the evaluation of an
\* Alternation the alternatives are tried strictly left to right at the
\* same cursor, a later one only after the failure of the one before it;
\* once one has succeeded the evaluation goes on after the Alternation and
\* never comes back to try a later one, even when a later node fails; each
\* offset is attempted once; and so (a|ab)c does not match "abc".
C12_OrderedChoice == []C12_NoMatch /\ [][C12_Step]_vars

\* C12 witness: in the attempt of (a|ab)c on "abc" from offset 0 the first
\* alternative has been committed and the node after the group, which will
\* fail on "b", is reached.
C12_Witness ==
    /\ pc = "run" /\ pattern_str = PatAOrAbThenC /\ input_line = <<"a", "b", "c">>
    /\ Len(stack) = 2 /\ ~ret.set
    /\ Top.fn = "mfcp" /\ Top.entry = 0 /\ Top.i = 2 /\ Top.ic = 1
====
